---- MODULE Spec2Model ----
(***************************************************************************)
(* Model of stock/migrations/0108_auto_20240219_0252.py: update_templates, *)
(* the data migration that repairs StockItemTestResult rows whose          *)
(* PartTestTemplate is owned by a Part which is not the result's part or   *)
(* one of its ancestors in the nested-set (MPTT) part tree.                *)
(***************************************************************************)
EXTENDS Integers, Sequences, FiniteSets

(* Bounds of the model: rows in the initial tables. *)
MaxTemplates == 3
MaxResults == 2

(* The template keys found in the initial PartTestTemplate table. *)
Keys == {"k1", "k2"}

(* SQL NULL of the matching_template annotation (primary keys start at 1). *)
NULL == 0

(* The Part table: a forest in nested-set form.  Part 1 is the root of     *)
(* tree 1, parts 2 and 3 are its two children, and part 4 is the root of   *)
(* tree 2 (whose range contains, as numbers, every range of tree 1).       *)
PartTable ==
    << [tree_id |-> 1, lft |-> 1, rght |-> 6, level |-> 0],
       [tree_id |-> 1, lft |-> 2, rght |-> 3, level |-> 1],
       [tree_id |-> 1, lft |-> 4, rght |-> 5, level |-> 1],
       [tree_id |-> 2, lft |-> 1, rght |-> 6, level |-> 0] >>

VARIABLES
    Part,                 \* part.Part rows: pk -> [tree_id, lft, rght, level]
    StockItem,            \* stock.StockItem rows: pk -> [part]
    PartTestTemplate,     \* part.PartTestTemplate rows: pk -> [part, key, attrs]
    StockItemTestResult,  \* stock.StockItemTestResult rows: pk -> [stock_item, template]
    pc,                   \* position in update_templates
    n,                    \* the local n of update_templates (bad_results.count())
    rows,                 \* fetched rows of the queryset being iterated, not yet visited
    results_to_update,    \* the local list results_to_update
    run,                  \* which invocation of update_templates this is
    tpl0,                 \* history: PartTestTemplate before the first run
    res0,                 \* history: StockItemTestResult before the first run
    tplStart,             \* history: PartTestTemplate when the current run started
    resStart,             \* history: StockItemTestResult when the current run started
    created               \* history: one record per template row inserted

vars == << Part, StockItem, PartTestTemplate, StockItemTestResult, pc, n, rows,
           results_to_update, run, tpl0, res0, tplStart, resStart, created >>

Runs == {1, 2}

(***************************************************************************)
(* Queries                                                                 *)
(***************************************************************************)

(* The part of a result row: result.stock_item.part *)
ResultPart(items, r) == items[r.stock_item].part

(* IsBad with strict comparisons: a template owned by the result's own     *)
(* part is taken for a bad one.                                            *)
IsBad_Strict(rp, tp) ==
    ~ ( rp.tree_id = tp.tree_id
        /\ rp.lft > tp.lft
        /\ rp.rght < tp.rght )

(* Lines 30-34: the exclude() clause.  A result is excluded from           *)
(* bad_results when the template's part rp/tp ranges satisfy all three     *)
(* conditions; bad when any fails.                                         *)
IsBad(rp, tp) ==
    ~ ( rp.tree_id = tp.tree_id
        /\ rp.lft >= tp.lft
        /\ rp.rght <= tp.rght )

(* BadResults without the exclude() clause: every result.                  *)
BadResults_All(parts, items, templates, results) == DOMAIN results

(* Lines 30-34: the bad_results queryset, evaluated on the current tables. *)
BadResults(parts, items, templates, results) ==
    { r \in DOMAIN results :
        IsBad(parts[ResultPart(items, results[r])],
              parts[templates[results[r].template].part]) }

(* TemplateQuery without the key condition.                                *)
TemplateQuery_AnyKey(parts, templates, p, k) ==
    { t \in DOMAIN templates :
        /\ parts[templates[t].part].tree_id = parts[p].tree_id
        /\ parts[templates[t].part].lft <= parts[p].lft
        /\ parts[templates[t].part].rght >= parts[p].rght }

(* Lines 48-52: template_query for one outer row: templates of key k owned *)
(* by a part of the same tree whose range contains the range of part p.    *)
TemplateQuery(parts, templates, p, k) ==
    { t \in DOMAIN templates :
        /\ parts[templates[t].part].tree_id = parts[p].tree_id
        /\ parts[templates[t].part].lft <= parts[p].lft
        /\ parts[templates[t].part].rght >= parts[p].rght
        /\ templates[t].key = k }

(* Lines 53, 56: order_by('part__level') and [:1]: the rows which can come *)
(* first in ascending level order (rows of equal level in either order).   *)
FirstByLevel(parts, templates, S) ==
    { t \in S : \A u \in S :
        parts[templates[t].part].level <= parts[templates[u].part].level }

(* Lines 55-57: the values the matching_template annotation can take.      *)
MatchingTemplate(parts, items, templates, row) ==
    LET S == TemplateQuery(parts, templates, ResultPart(items, row),
                           templates[row.template].key)
    IN  IF S = {} THEN {NULL} ELSE FirstByLevel(parts, templates, S)

(* ExistingTemplate without the check: a copy is always made.              *)
ExistingTemplate_None(parts, templates, p, k) == {}

(* ExistingTemplate looking at strict ancestors only, not at part p.       *)
ExistingTemplate_StrictAncestors(parts, templates, p, k) ==
    { t \in DOMAIN templates :
        /\ parts[templates[t].part].tree_id = parts[p].tree_id
        /\ parts[templates[t].part].lft < parts[p].lft
        /\ parts[templates[t].part].rght > parts[p].rght
        /\ templates[t].key = k }

(* Lines 80-85: the templates which already serve part p for key k.        *)
ExistingTemplate(parts, templates, p, k) ==
    { t \in DOMAIN templates :
        /\ parts[templates[t].part].tree_id = parts[p].tree_id
        /\ parts[templates[t].part].lft <= parts[p].lft
        /\ parts[templates[t].part].rght >= parts[p].rght
        /\ templates[t].key = k }

(* Line 85: .first() of an unordered queryset: the row of least pk.        *)
First(S) == CHOOSE t \in S : \A u \in S : t <= u

(* CopyTemplate without line 90: the copy stays with the original's part.  *)
CopyTemplate_KeepsPart(t, p) == t

(* Lines 89-90: the copy of template row t, owned by part p.               *)
CopyTemplate(t, p) == [t EXCEPT !.part = p]

(* SaveTemplate saving before the pk is cleared as well: the original row  *)
(* is overwritten by the copy, and the copy inserted.                      *)
SaveTemplate_UpdatesOriginal(templates, orig, row) ==
    Append([templates EXCEPT ![orig] = row], row)

(* Lines 91-92: pk = None and save(): the row is inserted under a new pk;  *)
(* the row of pk orig is left as it was.                                   *)
SaveTemplate(templates, orig, row) == Append(templates, row)

(* Lines 73, 100: bulk_update(results_to_update, ['template']).            *)
BulkUpdate(results, updates) ==
    [ r \in DOMAIN results |->
        IF \E u \in updates : u.pk = r
        THEN [results[r] EXCEPT
                !.template = (CHOOSE u \in updates : u.pk = r).template]
        ELSE results[r] ]

(***************************************************************************)
(* Initial state: any tables within the bounds, up to a renaming of the    *)
(* primary keys.  Template pks are given to the rows in non-decreasing     *)
(* (part, key) order and result pks in non-decreasing (stock_item,         *)
(* template) order: the routine reads a result's pk only to identify the   *)
(* row, and a template's pk only to identify the row and, in .first(), to  *)
(* order the rows of ExistingTemplate.  Every template row has attributes  *)
(* of its own (attrs stands for test_name, description, ...).  The two     *)
(* keys are interchangeable, so the template of pk 1 has key "k1".  There  *)
(* is one stock item per part.                                             *)
(***************************************************************************)
KeyRank(k) == IF k = "k1" THEN 1 ELSE 2

TemplateOrder(a, b) ==
    2 * a.part + KeyRank(a.key) <= 2 * b.part + KeyRank(b.key)

ResultOrder(a, b) ==
    (MaxTemplates + 1) * a.stock_item + a.template
        <= (MaxTemplates + 1) * b.stock_item + b.template

InitTemplates ==
    { t \in UNION { [1..nt -> [part : DOMAIN PartTable, key : Keys]] :
                      nt \in 0..MaxTemplates } :
        /\ \A i \in DOMAIN t : \A j \in DOMAIN t : i < j => TemplateOrder(t[i], t[j])
        /\ (DOMAIN t # {} => t[1].key = "k1") }

InitResults(templates) ==
    { r \in UNION { [1..nr -> [stock_item : DOMAIN PartTable,
                               template : DOMAIN templates]] :
                      nr \in 0..MaxResults } :
        \A i \in DOMAIN r : \A j \in DOMAIN r : i < j => ResultOrder(r[i], r[j]) }

Init ==
    /\ Part = PartTable
    /\ StockItem = [ i \in DOMAIN PartTable |-> [part |-> i] ]
    /\ \E t \in InitTemplates :
         PartTestTemplate =
            [ i \in DOMAIN t |-> [part |-> t[i].part, key |-> t[i].key, attrs |-> i] ]
    /\ StockItemTestResult \in InitResults(PartTestTemplate)
    /\ pc = "count"
    /\ n = 0
    /\ rows = {}
    /\ results_to_update = {}
    /\ run = 1
    /\ tpl0 = PartTestTemplate
    /\ res0 = StockItemTestResult
    /\ tplStart = PartTestTemplate
    /\ resStart = StockItemTestResult
    /\ created = {}

(***************************************************************************)
(* Steps of update_templates                                               *)
(***************************************************************************)

(* Lines 30-40: count the bad results; return when there are none.         *)
CountBad ==
    /\ pc = "count"
    /\ n' = Cardinality(BadResults(Part, StockItem, PartTestTemplate,
                                   StockItemTestResult))
    /\ pc' = IF n' = 0 THEN "done" ELSE "matching"
    /\ UNCHANGED << Part, StockItem, PartTestTemplate, StockItemTestResult, rows,
                    results_to_update, run, tpl0, res0, tplStart, resStart, created >>

(* Lines 55-60, 65: the rows the for statement over matching_results can   *)
(* fetch: the bad results whose matching_template annotation is not null,  *)
(* each with one of the values its annotation can take.                    *)
MatchingResults(parts, items, templates, results) ==
    LET bad == BadResults(parts, items, templates, results)
    IN  { { [pk |-> r,
             stock_item |-> results[r].stock_item,
             template |-> results[r].template,
             matching_template |-> annot[r]] :
            r \in { b \in bad : annot[b] # NULL } } :
          annot \in { f \in [bad -> DOMAIN templates \cup {NULL}] :
                        \A r \in bad :
                          f[r] \in MatchingTemplate(parts, items, templates,
                                                    results[r]) } }

(* Lines 55-57, 61, 78: the rows the for statement over missing_results    *)
(* can fetch: the bad results whose annotation is null.                    *)
MissingResults(parts, items, templates, results) ==
    LET bad == BadResults(parts, items, templates, results)
    IN  { [pk |-> r,
           stock_item |-> results[r].stock_item,
           template |-> results[r].template,
           matching_template |-> NULL] :
          r \in { b \in bad :
                    NULL \in MatchingTemplate(parts, items, templates,
                                              results[b]) } }

(* Lines 63-68: the list results_to_update after the loop over the fetched *)
(* rows (the order of the list plays no part in bulk_update).              *)
StageMatching(fetched) ==
    { [pk |-> row.pk, template |-> row.matching_template] :
      row \in { f \in fetched : f.template # f.matching_template } }

(* Lines 55-75: fetch matching_results, stage every row whose template is  *)
(* not its matching template, flush the batch and reset the list.          *)
UpdateMatching ==
    /\ pc = "matching"
    /\ \E fetched \in MatchingResults(Part, StockItem, PartTestTemplate,
                                       StockItemTestResult) :
         LET staged == StageMatching(fetched)
         IN  StockItemTestResult' =
                IF Cardinality(staged) > 0
                THEN BulkUpdate(StockItemTestResult, staged)
                ELSE StockItemTestResult
    /\ results_to_update' = {}
    /\ pc' = "missing"
    /\ UNCHANGED << Part, StockItem, PartTestTemplate, n, rows, run, tpl0, res0,
                    tplStart, resStart, created >>

(* Lines 61, 78: the for statement evaluates missing_results on the tables *)
(* as the first batch left them.                                           *)
FetchMissing ==
    /\ pc = "missing"
    /\ rows' = MissingResults(Part, StockItem, PartTestTemplate, StockItemTestResult)
    /\ pc' = "loop_missing"
    /\ UNCHANGED << Part, StockItem, PartTestTemplate, StockItemTestResult, n,
                    results_to_update, run, tpl0, res0, tplStart, resStart, created >>

(* Lines 78-96: one iteration over missing_results: attach the template    *)
(* which already exists for the part and key, or else insert a copy of the *)
(* result's template owned by the result's part.                           *)
MissingStep ==
    /\ pc = "loop_missing"
    /\ \E row \in rows :
         LET p        == StockItem[row.stock_item].part
             old      == PartTestTemplate[row.template]
             existing == ExistingTemplate(Part, PartTestTemplate, p, old.key)
             newpk    == Len(PartTestTemplate) + 1
             template == IF existing # {} THEN First(existing) ELSE newpk
         IN  /\ rows' = rows \ {row}
             /\ PartTestTemplate' =
                   IF existing # {}
                   THEN PartTestTemplate
                   ELSE SaveTemplate(PartTestTemplate, row.template,
                                     CopyTemplate(old, p))
             /\ created' =
                   IF existing # {}
                   THEN created
                   ELSE created \cup
                          { [template |-> newpk, result |-> row.pk,
                             source |-> row.template, run |-> run] }
             /\ results_to_update' =
                   results_to_update \cup { [pk |-> row.pk, template |-> template] }
    /\ UNCHANGED << Part, StockItem, StockItemTestResult, pc, n, run, tpl0, res0,
                    tplStart, resStart >>

(* Lines 102-103: what the final assertion counts: bad_results, evaluated  *)
(* again on the tables as they are.                                        *)
RemainingBad(parts, items, templates, results) ==
    Cardinality(BadResults(parts, items, templates, results))

(* Lines 98-103: flush the second batch, then the final assertion.         *)
UpdateMissing ==
    /\ pc = "loop_missing"
    /\ rows = {}
    /\ StockItemTestResult' =
          IF Cardinality(results_to_update) > 0
          THEN BulkUpdate(StockItemTestResult, results_to_update)
          ELSE StockItemTestResult
    /\ pc' = IF RemainingBad(Part, StockItem, PartTestTemplate,
                             StockItemTestResult') = 0
             THEN "done"
             ELSE "assertion_error"
    /\ UNCHANGED << Part, StockItem, PartTestTemplate, n, rows, results_to_update,
                    run, tpl0, res0, tplStart, resStart, created >>

(* Lines 7, 113: update_templates is invoked again on the tables the       *)
(* previous invocation left (its locals start afresh).                     *)
RunAgain ==
    /\ pc \in {"done", "assertion_error"}
    /\ run + 1 \in Runs
    /\ run' = run + 1
    /\ pc' = "count"
    /\ n' = 0
    /\ rows' = {}
    /\ results_to_update' = {}
    /\ tplStart' = PartTestTemplate
    /\ resStart' = StockItemTestResult
    /\ UNCHANGED << Part, StockItem, PartTestTemplate, StockItemTestResult, tpl0,
                    res0, created >>

Next ==
    \/ CountBad
    \/ UpdateMatching
    \/ FetchMissing
    \/ MissingStep
    \/ UpdateMissing
    \/ RunAgain

Spec == Init /\ [][Next]_vars

(***************************************************************************)
(* Properties                                                              *)
(***************************************************************************)

(* Part a is part p or an ancestor of p: same tree, range containing p's.  *)
AncestorOrSelf(a, p) ==
    /\ PartTable[a].tree_id = PartTable[p].tree_id
    /\ PartTable[a].lft <= PartTable[p].lft
    /\ PartTable[a].rght >= PartTable[p].rght

(* The part a result row belongs to. *)
PartOf(row) == StockItem[row.stock_item].part

(* The ancestor invariant of result r in the tables (templates, results).  *)
Satisfies(templates, results, r) ==
    AncestorOrSelf(templates[results[r].template].part, PartOf(results[r]))

(* The results which were bad before the first run. *)
Bad0 == { r \in DOMAIN res0 : ~ Satisfies(tpl0, res0, r) }

(* The template a result referenced before the first run. *)
Original(r) == tpl0[res0[r].template]

(* The templates of `templates` with the key of r's original template,     *)
(* owned by r's part or an ancestor of it.                                 *)
Qualifying(templates, r) ==
    { t \in DOMAIN templates :
        /\ templates[t].key = Original(r).key
        /\ AncestorOrSelf(templates[t].part, PartOf(res0[r])) }

(* Bad results with, and without, a qualifying template before the run.    *)
Matched0 == { r \in Bad0 : Qualifying(tpl0, r) # {} }
Missing0 == { r \in Bad0 : Qualifying(tpl0, r) = {} }

(* The first run of update_templates has ended. *)
Finished1 == run = 1 /\ pc \in {"done", "assertion_error"}

(* The template result r references now. *)
Now(r) == StockItemTestResult[r].template

(* C1: when update_templates has finished, every result's template is      *)
(* owned by the result's part or an ancestor of it (same tree id, range    *)
(* containing the result part's range), and the final assertion never      *)
(* fails.                                                                  *)
C1_AncestorInvariant ==
    /\ pc # "assertion_error"
    /\ pc = "done" =>
         \A r \in DOMAIN StockItemTestResult :
            /\ Now(r) \in DOMAIN PartTestTemplate
            /\ Satisfies(PartTestTemplate, StockItemTestResult, r)

C1_Witness ==
    /\ run = 1 /\ pc = "done"
    /\ Matched0 # {}
    /\ Missing0 # {}

(* C2: a bad result with candidate templates (same key, owner an ancestor  *)
(* or the part itself) at two or more different levels ends up referencing *)
(* the deepest of them.                                                    *)
C2_DeepestCandidateChosen ==
    Finished1 =>
      \A r \in Matched0 :
         LET C == Qualifying(tpl0, r)
         IN  (\E t \in C, u \in C :
                 PartTable[tpl0[t].part].level # PartTable[tpl0[u].part].level)
             => \A u \in C : PartTable[tpl0[Now(r)].part].level
                               >= PartTable[tpl0[u].part].level

(* C3 as stated: every bad result which had no qualifying template before  *)
(* the run ends up referencing a new template owned by its own part, with  *)
(* the key and attributes of its original template.                        *)
C3_CloneOnOwnPart ==
    Finished1 =>
      \A r \in Missing0 :
         /\ Now(r) \notin DOMAIN tpl0
         /\ Now(r) \in DOMAIN PartTestTemplate
         /\ PartTestTemplate[Now(r)] =
               [Original(r) EXCEPT !.part = PartOf(res0[r])]

(* C3 as amended: every bad result which had no qualifying template before *)
(* the run ends up referencing a template inserted during the run: the     *)
(* one of least pk (earliest inserted) among the templates with its        *)
(* original's key owned by its part or an ancestor.  That template is the  *)
(* copy, owned by the part of the result it was inserted for, of that      *)
(* result's original template; the one inserted for r itself, if any, is   *)
(* the template r references.                                              *)
C3_CloneOrAttach ==
    Finished1 =>
      \A r \in Missing0 :
         /\ Now(r) \notin DOMAIN tpl0
         /\ Now(r) \in Qualifying(PartTestTemplate, r)
         /\ \A u \in Qualifying(PartTestTemplate, r) : Now(r) <= u
         /\ \E c \in created :
               /\ c.template = Now(r)
               /\ c.result \in Missing0
               /\ PartTestTemplate[Now(r)] =
                     [Original(c.result) EXCEPT !.part = PartOf(res0[c.result])]
         /\ \A c \in created : c.result = r => c.template = Now(r)

C3_Witness ==
    /\ run = 1 /\ pc = "done"
    /\ \E r \in Missing0 :
         /\ \E c \in created : c.result = r
         /\ PartTestTemplate[Now(r)] = [Original(r) EXCEPT !.part = PartOf(res0[r])]
    /\ \E r \in Missing0 :
         /\ \A c \in created : c.result # r
         /\ PartTestTemplate[Now(r)] # [Original(r) EXCEPT !.part = PartOf(res0[r])]

(* C4: in one run at most one template is inserted per (part, key); of two *)
(* bad results on the same part which need the same missing key, at most   *)
(* one has a template inserted for it and both end up on the same          *)
(* template.                                                               *)
C4_NoDuplicateClone ==
    /\ \A c \in created : \A d \in created :
          ( /\ c.run = d.run
            /\ PartTestTemplate[c.template].part = PartTestTemplate[d.template].part
            /\ PartTestTemplate[c.template].key = PartTestTemplate[d.template].key )
          => c = d
    /\ Finished1 =>
         \A r \in Missing0 : \A q \in Missing0 :
            ( /\ r # q
              /\ PartOf(res0[r]) = PartOf(res0[q])
              /\ Original(r).key = Original(q).key )
            => /\ Cardinality({ c \in created : c.result \in {r, q} }) <= 1
               /\ Now(r) = Now(q)
               /\ Now(r) \in Qualifying(PartTestTemplate, r)

C4_Witness ==
    /\ run = 1 /\ pc = "done"
    /\ \E r \in Missing0 : \E q \in Missing0 :
          /\ r # q
          /\ PartOf(res0[r]) = PartOf(res0[q])
          /\ Original(r).key = Original(q).key
          /\ res0[r].template # res0[q].template
          /\ Cardinality(created) = 1

(* C5: a second run changes nothing: its count of bad results is zero, it  *)
(* returns at once, no result's template changes and no template is        *)
(* inserted.                                                               *)
C5_Idempotent ==
    run = 2 =>
      /\ PartTestTemplate = tplStart
      /\ StockItemTestResult = resStart
      /\ \A c \in created : c.run = 1
      /\ pc \in {"count", "done"}
      /\ pc = "done" => n = 0

C5_Witness ==
    /\ run = 2 /\ pc = "done"
    /\ Matched0 # {}
    /\ created # {}
    /\ StockItemTestResult = resStart
    /\ StockItemTestResult # res0

(* C6: a bad result which had a qualifying template before the run ends up *)
(* referencing one of the qualifying templates which existed before the    *)
(* run, different from its former template, and no template is inserted    *)
(* for it.                                                                 *)
C6_RepointToExisting ==
    Finished1 =>
      \A r \in Matched0 :
         /\ Now(r) \in Qualifying(tpl0, r)
         /\ Now(r) # res0[r].template
         /\ \A c \in created : c.result # r

C6_Witness ==
    /\ run = 1 /\ pc = "done"
    /\ \E r \in Matched0 : Now(r) # res0[r].template
    /\ created # {}

(* C7: when no result is bad before the run, the routine returns at once   *)
(* and writes nothing.                                                     *)
C7_EarlyExit ==
    (run = 1 /\ Bad0 = {}) =>
      /\ pc \in {"count", "done"}
      /\ PartTestTemplate = tpl0
      /\ StockItemTestResult = res0
      /\ created = {}

C7_Witness ==
    /\ run = 1 /\ pc = "done"
    /\ Bad0 = {}
    /\ DOMAIN res0 # {}
    /\ \E r \in DOMAIN res0 : tpl0[res0[r].template].part # PartOf(res0[r])
    /\ \E r \in DOMAIN res0 : tpl0[res0[r].template].part = PartOf(res0[r])

(* C8: the routine only changes template references of results and inserts *)
(* template rows: every template which existed before the run is still     *)
(* there with its part, key and attributes, no part or stock item changes, *)
(* no result is created or deleted, and no result changes its stock item.  *)
C8_Frame ==
    /\ Part = PartTable
    /\ StockItem = [ i \in DOMAIN PartTable |-> [part |-> i] ]
    /\ \A t \in DOMAIN tpl0 :
          t \in DOMAIN PartTestTemplate /\ PartTestTemplate[t] = tpl0[t]
    /\ DOMAIN StockItemTestResult = DOMAIN res0
    /\ \A r \in DOMAIN res0 :
          StockItemTestResult[r].stock_item = res0[r].stock_item

C8_Witness ==
    /\ pc = "done"
    /\ Len(PartTestTemplate) > Len(tpl0)
    /\ \E r \in Matched0 : Now(r) # res0[r].template

(* C9: a result which satisfied the ancestor invariant before the run      *)
(* references the same template at every point of the run and after it.    *)
C9_GoodUntouched ==
    \A r \in DOMAIN res0 :
       Satisfies(tpl0, res0, r) => Now(r) = res0[r].template

C9_Witness ==
    /\ run = 1 /\ pc = "done"
    /\ \E r \in DOMAIN res0 :
          /\ r \notin Bad0
          /\ Cardinality(Qualifying(tpl0, r)) > 1
    /\ \E r \in Bad0 : Now(r) # res0[r].template

(* No two templates share (part, key). *)
UniqueKeys(templates) ==
    \A t \in DOMAIN templates : \A u \in DOMAIN templates :
       (templates[t].part = templates[u].part /\ templates[t].key = templates[u].key)
       => t = u

(* C10: if no two templates shared (part, key) before the run, none do at  *)
(* any point of the run or after it; and a template is only ever inserted  *)
(* for a (part, key) for which, at that moment, no template exists on the  *)
(* part or on any of its ancestors.                                        *)
C10_KeysStayUnique ==
    /\ [](UniqueKeys(tpl0) => UniqueKeys(PartTestTemplate))
    /\ [][ PartTestTemplate' # PartTestTemplate =>
             /\ Len(PartTestTemplate') = Len(PartTestTemplate) + 1
             /\ LET new == PartTestTemplate'[Len(PartTestTemplate')]
                IN  \A t \in DOMAIN PartTestTemplate :
                       ~ ( /\ PartTestTemplate[t].key = new.key
                           /\ AncestorOrSelf(PartTestTemplate[t].part, new.part) )
         ]_vars

C10_Witness ==
    /\ pc = "done"
    /\ UniqueKeys(tpl0)
    /\ Cardinality(created) = 2
    /\ UniqueKeys(PartTestTemplate)

====
